---- MODULE Spec2Model ----
(***************************************************************************)
(* Polynomial string hashing (struct Hashing) and the hash functors        *)
(* custom_hash / pair_hash / vector_hash of StringHashing.cpp.             *)
(*                                                                         *)
(* Vectors are modelled as functions with the source's 0-based indices.    *)
(* A string is a vector of character values ('a' = 97).  The ll values of  *)
(* the engine stay below 2^63 in the source, so they are modelled by their *)
(* mathematical values; products that exceed the range of TLC's integers   *)
(* are evaluated by double-and-add (ModProduct).  The 64-bit unsigned      *)
(* words of the functors are vectors of 8 bytes, least significant first,  *)
(* with all arithmetic modulo 2^64.                                        *)
(***************************************************************************)
EXTENDS Integers, Sequences, FiniteSets, TLC

VARIABLES
  a,                    \* argument of the constructor Hashing(string a)
  pc,                   \* "new" before the constructor has run, "ready" after
  str,                  \* Hashing::str
  n,                    \* Hashing::n
  hashValues,           \* Hashing::hashValues
  powersOfBase,         \* Hashing::powersOfBase
  inversePowersOfBase,  \* Hashing::inversePowersOfBase
  out1,                 \* result held by the caller (h1 / hv1 of letsGo)
  out2,                 \* result held by the caller (h2 / hv2 of letsGo)
  guard,                \* state of the function-local static: "uninit", "busy", "done"
  FIXED_RANDOM,         \* custom_hash::operator()::FIXED_RANDOM
  inits,                \* number of times the initializer of FIXED_RANDOM has run
  tpc,                  \* per thread: position inside custom_hash::operator()
  tx,                   \* per thread: the argument x of the call in progress
  tret,                 \* per thread: the last call that returned
  hprev,                \* sequential caller: the functor call before the last
  hlast                 \* sequential caller: the last functor call

engineVars == <<a, pc, str, n, hashValues, powersOfBase, inversePowersOfBase, out1, out2>>

staticVars == <<guard, FIXED_RANDOM, inits>>

threadVars == <<tpc, tx, tret>>

callerVars == <<hprev, hlast>>

vars == <<engineVars, staticVars, threadVars, callerVars>>

-----------------------------------------------------------------------------
(* Bounds of the explored inputs *)

MaxLen == 2       \* every text up to this length over Letters is explored
NumLetters == 2   \* Letters holds the first NumLetters letters and 'z'
NumThreads == 2   \* threads calling custom_hash concurrently
MaxVecLen == 2    \* longest vector handed to vector_hash

-----------------------------------------------------------------------------
(* Evaluation helper: binds the value v before F uses it *)

Bind(value, F(_)) == CHOOSE res \in {F(bound) : bound \in {value}} : TRUE

Bind2(value1, value2, F(_, _)) ==
  CHOOSE res \in {F(bound1, bound2) : bound1 \in {value1}, bound2 \in {value2}} : TRUE

-----------------------------------------------------------------------------
(* Program constants *)

CharA == 97

\* a base that weights every position alike: every power of it is 1
baseOne == 31 ^ 0

base == 31

hashPrimes == [i \in 0..1 |-> IF i = 0 THEN 1000000009 ELSE 100000007]

primes == Cardinality(DOMAIN hashPrimes)

-----------------------------------------------------------------------------
(* Modular arithmetic *)

Double(v, m) == (2 * v) % m

\* (x * d) % m for a digit d in 0..7
SmallProduct(x, d, m) ==
  LET x1 == x % m
      x2 == Double(x1, m)
      x4 == Double(x2, m)
  IN ((((IF d % 2 = 1 THEN x1 ELSE 0) + (IF (d \div 2) % 2 = 1 THEN x2 ELSE 0)) % m)
        + (IF d \div 4 = 1 THEN x4 ELSE 0)) % m

\* (x * y) % m for 0 <= x, 0 <= y, as the source's ll arithmetic computes it
\* (the product fits in 64 bits); evaluated three bits of y at a time so that
\* no intermediate value exceeds 2 * m.
RECURSIVE ModProduct(_, _, _)
ModProduct(x, y, m) ==
  IF y = 0 THEN 0
  ELSE CHOOSE res \in
         { (Double(Double(Double(rest, m), m), m) + SmallProduct(x, y % 8, m)) % m :
           rest \in {ModProduct(x, y \div 8, m)} } : TRUE

mulMod(x, y, m) ==
  CHOOSE res \in {ModProduct(xr, yr, m) : xr \in {x % m}, yr \in {y % m}} : TRUE

subMod(x, y, m) == (((x - y) % m) + m) % m

RECURSIVE expo(_, _, _)
expo(x, e, m) ==
  IF e = 0 THEN 1 % m
  ELSE CHOOSE res \in
         { (IF e % 2 = 1 THEN mulMod(sq, x, m) ELSE sq) :
           sq \in {mulMod(h, h, m) : h \in {expo(x, e \div 2, m)}} } : TRUE

mminvprime(x, m) == expo(x, m - 2, m)

-----------------------------------------------------------------------------
(* Constructor *)

resize(len) == [k \in 0..(len - 1) |-> 0]

nextPower(prev, p) == ModProduct(base, prev, p)

\* rep(j, 1, n + 1) powersOfBase[i][j] = (base * powersOfBase[i][j - 1]) % hashPrimes[i]
RECURSIVE powersLoop(_, _, _, _)
powersLoop(row, j, len, p) ==
  IF j >= len + 1 THEN row
  ELSE Bind([row EXCEPT ![j] = nextPower(row[j - 1], p)],
            LAMBDA r : powersLoop(r, j + 1, len, p))

\* rrep(j, 0, n - 1) inversePowersOfBase[i][j] = mulMod(inversePowersOfBase[i][j + 1], base, hashPrimes[i])
RECURSIVE inverseLoop(_, _, _)
inverseLoop(row, j, p) ==
  IF j < 0 THEN row
  ELSE Bind([row EXCEPT ![j] = mulMod(row[j + 1], base, p)],
            LAMBDA r : inverseLoop(r, j - 1, p))

charCode(c) == c - CharA + 1

\* the prefix sum without its reduction
prefixSumNoMod(hv, prev, p) == hv + prev

prefixSum(hv, prev, p) == (hv + prev) % p

\* rep(j, 0, n) of the prefix-hash loop
RECURSIVE hashLoop(_, _, _, _, _, _)
hashLoop(row, j, s, len, pows, p) ==
  IF j >= len THEN row
  ELSE Bind(prefixSum(ModProduct(charCode(s[j]), pows[j], p),
                      IF j > 0 THEN row[j - 1] ELSE 0, p),
            LAMBDA v : Bind([row EXCEPT ![j] = v],
                            LAMBDA r : hashLoop(r, j + 1, s, len, pows, p)))

powersRow(len, p) ==
  powersLoop([resize(len + 1) EXCEPT ![0] = 1], 1, len, p)

inverseRow(pows, len, p) ==
  inverseLoop([resize(len + 1) EXCEPT ![len] = mminvprime(pows[len], p)], len - 1, p)

length(s) == Cardinality(DOMAIN s)

Hashing ==
  /\ pc = "new"
  /\ str' = a
  /\ n' = length(a)
  /\ powersOfBase' = [i \in 0..(primes - 1) |-> powersRow(n', hashPrimes[i])]
  /\ inversePowersOfBase' =
       [i \in 0..(primes - 1) |-> inverseRow(powersOfBase'[i], n', hashPrimes[i])]
  /\ hashValues' =
       [i \in 0..(primes - 1) |->
          hashLoop(resize(n'), 0, str', n', powersOfBase'[i], hashPrimes[i])]
  /\ pc' = "ready"
  /\ UNCHANGED <<a, out1, out2>>
  /\ UNCHANGED <<staticVars, threadVars, callerVars>>

-----------------------------------------------------------------------------
(* Queries *)

\* the query without the normalisation by the inverse power
substringHashVecRaw(l, r) ==
  [i \in 0..(primes - 1) |->
     LET val1 == hashValues[i][r]
         val2 == IF l > 0 THEN hashValues[i][l - 1] ELSE 0
     IN subMod(val1, val2, hashPrimes[i])]

substringHashVec(l, r) ==
  [i \in 0..(primes - 1) |->
     LET val1 == hashValues[i][r]
         val2 == IF l > 0 THEN hashValues[i][l - 1] ELSE 0
     IN mulMod(subMod(val1, val2, hashPrimes[i]), inversePowersOfBase[i][l], hashPrimes[i])]

\* the pair query without the normalisation by the inverse power
substringHashPairRaw(l, r) ==
  LET h1 == LET val1 == hashValues[0][r]
                val2 == IF l > 0 THEN hashValues[0][l - 1] ELSE 0
            IN subMod(val1, val2, hashPrimes[0])
      h2 == LET val1 == hashValues[1][r]
                val2 == IF l > 0 THEN hashValues[1][l - 1] ELSE 0
            IN subMod(val1, val2, hashPrimes[1])
  IN [first |-> h1, second |-> h2]

\* the pair query whose second block reads the tables of prime 1 again
substringHashPairSameTables(l, r) ==
  LET h1 == LET val1 == hashValues[0][r]
                val2 == IF l > 0 THEN hashValues[0][l - 1] ELSE 0
            IN mulMod(subMod(val1, val2, hashPrimes[0]), inversePowersOfBase[0][l], hashPrimes[0])
      h2 == LET val1 == hashValues[0][r]
                val2 == IF l > 0 THEN hashValues[0][l - 1] ELSE 0
            IN mulMod(subMod(val1, val2, hashPrimes[1]), inversePowersOfBase[0][l], hashPrimes[1])
  IN [first |-> h1, second |-> h2]

\* the pair query subtracting the prefix that ends at l instead of l - 1
substringHashPairOffByOne(l, r) ==
  LET h1 == LET val1 == hashValues[0][r]
                val2 == IF l > 0 THEN hashValues[0][l] ELSE 0
            IN mulMod(subMod(val1, val2, hashPrimes[0]), inversePowersOfBase[0][l], hashPrimes[0])
      h2 == LET val1 == hashValues[1][r]
                val2 == IF l > 0 THEN hashValues[1][l] ELSE 0
            IN mulMod(subMod(val1, val2, hashPrimes[1]), inversePowersOfBase[1][l], hashPrimes[1])
  IN [first |-> h1, second |-> h2]

substringHashPair(l, r) ==
  LET h1 == LET val1 == hashValues[0][r]
                val2 == IF l > 0 THEN hashValues[0][l - 1] ELSE 0
            IN mulMod(subMod(val1, val2, hashPrimes[0]), inversePowersOfBase[0][l], hashPrimes[0])
      h2 == LET val1 == hashValues[1][r]
                val2 == IF l > 0 THEN hashValues[1][l - 1] ELSE 0
            IN mulMod(subMod(val1, val2, hashPrimes[1]), inversePowersOfBase[1][l], hashPrimes[1])
  IN [first |-> h1, second |-> h2]

\* a query that stores the hash it computed over the prefix hash it read
membersAfterQueryCached(l, r) ==
  /\ hashValues' = [i \in 0..(primes - 1) |->
                      [hashValues[i] EXCEPT ![r] = substringHashVec(l, r)[i]]]
  /\ UNCHANGED <<str, n, powersOfBase, inversePowersOfBase>>

\* The members after a query: neither query assigns to any member.
membersAfterQuery(l, r) ==
  UNCHANGED <<str, n, hashValues, powersOfBase, inversePowersOfBase>>

ValidRange(l, r) == 0 <= l /\ l <= r /\ r < n

NoResult == [fn |-> "none", l |-> 0, r |-> 0, val |-> <<>>]

QueryVec(slot, l, r) ==
  /\ pc = "ready"
  /\ ValidRange(l, r)
  /\ LET res == [fn |-> "Vec", l |-> l, r |-> r, val |-> substringHashVec(l, r)]
     IN IF slot = 1 THEN out1' = res /\ UNCHANGED out2
                    ELSE out2' = res /\ UNCHANGED out1
  /\ membersAfterQuery(l, r)
  /\ UNCHANGED <<a, pc, staticVars, threadVars, callerVars>>

QueryPair(slot, l, r) ==
  /\ pc = "ready"
  /\ ValidRange(l, r)
  /\ LET res == [fn |-> "Pair", l |-> l, r |-> r, val |-> substringHashPair(l, r)]
     IN IF slot = 1 THEN out1' = res /\ UNCHANGED out2
                    ELSE out2' = res /\ UNCHANGED out1
  /\ membersAfterQuery(l, r)
  /\ UNCHANGED <<a, pc, staticVars, threadVars, callerVars>>

-----------------------------------------------------------------------------
(* 64-bit unsigned words *)

\* A uint64_t is a tuple of 8 bytes, least significant first: byte k is w[k + 1].
MkWord(F(_)) == <<F(0), F(1), F(2), F(3), F(4), F(5), F(6), F(7)>>

\* the word written as 8 bytes, most significant first (as in a hex literal)
Hex(b7, b6, b5, b4, b3, b2, b1, b0) == <<b0, b1, b2, b3, b4, b5, b6, b7>>

\* (uint64_t)k for a long long k with |k| < 2^31
ToWord(k) ==
  MkWord(LAMBDA i : IF i < 4 THEN (k \div (256 ^ i)) % 256
                    ELSE IF k < 0 THEN 255 ELSE 0)

RECURSIVE AddCarry(_, _, _)
AddCarry(x, y, i) ==
  IF i = 0 THEN 0 ELSE (x[i] + y[i] + AddCarry(x, y, i - 1)) \div 256

\* x + y modulo 2^64
Add(x0, y0) ==
  Bind2(x0, y0, LAMBDA x, y :
    MkWord(LAMBDA i : (x[i + 1] + y[i + 1] + AddCarry(x, y, i)) % 256))

RECURSIVE Column(_, _, _, _)
Column(x, y, k, i) ==
  IF i > k THEN 0 ELSE x[i + 1] * y[k - i + 1] + Column(x, y, k, i + 1)

RECURSIVE MulCarry(_, _, _)
MulCarry(x, y, k) ==
  IF k = 0 THEN 0 ELSE (Column(x, y, k - 1, 0) + MulCarry(x, y, k - 1)) \div 256

\* x * y modulo 2^64
Mul(x0, y0) ==
  Bind2(x0, y0, LAMBDA x, y :
    MkWord(LAMBDA k : (Column(x, y, k, 0) + MulCarry(x, y, k)) % 256))

RECURSIVE XorBits(_, _, _)
XorBits(p, q, t) ==
  IF t = 8 THEN 0 ELSE ((p + q) % 2) + 2 * XorBits(p \div 2, q \div 2, t + 1)

\* x ^ y
Xor(x0, y0) ==
  Bind2(x0, y0, LAMBDA x, y : MkWord(LAMBDA i : XorBits(x[i + 1], y[i + 1], 0)))

Bit(x, i) == IF i < 0 \/ i > 63 THEN 0 ELSE (x[(i \div 8) + 1] \div (2 ^ (i % 8))) % 2

RECURSIVE PackBits(_, _, _)
PackBits(x, lo, t) ==
  IF t = 8 THEN 0 ELSE Bit(x, lo + t) * (2 ^ t) + PackBits(x, lo, t + 1)

\* x >> k and x << k on 64 bits
Shr(x0, k) == Bind(x0, LAMBDA x : MkWord(LAMBDA j : PackBits(x, 8 * j + k, 0)))

Shl(x0, k) == Bind(x0, LAMBDA x : MkWord(LAMBDA j : PackBits(x, 8 * j - k, 0)))

-----------------------------------------------------------------------------
(* Hash functors *)

splitmix64(x) ==
  Bind(Add(x, Hex(158, 55, 121, 185, 127, 74, 124, 21)), LAMBDA s1 :
  Bind(Mul(Xor(s1, Shr(s1, 30)), Hex(191, 88, 71, 109, 28, 228, 229, 185)), LAMBDA s2 :
  Bind(Mul(Xor(s2, Shr(s2, 27)), Hex(148, 208, 73, 187, 19, 49, 17, 235)), LAMBDA s3 :
  Xor(s3, Shr(s3, 31)))))

\* the return statement of custom_hash::operator(), given the value of FIXED_RANDOM
custom_hash(x, seed) == splitmix64(Add(x, seed))

\* the combination without the shift
pairCombineNoShift(h1, h2) == Xor(h1, h2)

\* h1 ^ (h2 << 1LL)
pairCombine(h1, h2) == Xor(h1, Shl(h2, 1))

pair_hash(p, seed) ==
  Bind2(custom_hash(ToWord(p[1]), seed), custom_hash(ToWord(p[2]), seed),
        LAMBDA h1, h2 : pairCombine(h1, h2))

\* 0x9e3779b9 converted to size_t
Golden32 == Hex(0, 0, 0, 0, 158, 55, 121, 185)

\* the combination without the constant
vectorCombineNoConstant(h, eh) == Xor(h, Add(Add(eh, Shl(h, 6)), Shr(h, 2)))

\* h ^= custom_hash{}((uint64_t)it) + 0x9e3779b9 + (h << 6) + (h >> 2)
vectorCombine(h, eh) == Xor(h, Add(Add(Add(eh, Golden32), Shl(h, 6)), Shr(h, 2)))

RECURSIVE vectorLoop(_, _, _, _)
vectorLoop(h, v, i, seed) ==
  IF i > Len(v) THEN h
  ELSE Bind(vectorCombine(h, custom_hash(ToWord(v[i]), seed)),
            LAMBDA h2 : vectorLoop(h2, v, i + 1, seed))

vectorInit == ToWord(0)

vector_hash(v, seed) == vectorLoop(vectorInit, v, 1, seed)

\* steady_clock::now().time_since_epoch().count(): the values a reading may return
ClockValues == {ToWord(1000000007), Hex(0, 0, 18, 52, 171, 205, 239, 255)}

-----------------------------------------------------------------------------
(* custom_hash::operator() called from several threads *)

Threads == 1..NumThreads

\* the arguments the threads pass
ThreadInputs == {ToWord(0), ToWord(-1)}

NoReturn == [x |-> <<>>, seed |-> <<>>, val |-> <<>>]

Enter(t, x) ==
  /\ tpc[t] = "idle"
  /\ tx' = [tx EXCEPT ![t] = x]
  /\ tpc' = [tpc EXCEPT ![t] = "static"]
  /\ UNCHANGED <<engineVars, staticVars, tret, callerVars>>

\* a static whose initialisation is not guarded: every thread that finds it
\* uninitialised runs the initializer
StaticDeclUnsafe(t) ==
  /\ tpc[t] = "static"
  /\ \/ /\ guard = "done"
        /\ tpc' = [tpc EXCEPT ![t] = "return"]
     \/ /\ guard = "uninit"
        /\ tpc' = [tpc EXCEPT ![t] = "init"]
  /\ UNCHANGED <<engineVars, staticVars, tx, tret, callerVars>>

\* Control reaches the declaration of the static FIXED_RANDOM: the first
\* thread runs the initializer, a thread arriving meanwhile waits for it.
StaticDecl(t) ==
  /\ tpc[t] = "static"
  /\ \/ /\ guard = "done"
        /\ tpc' = [tpc EXCEPT ![t] = "return"]
        /\ UNCHANGED guard
     \/ /\ guard = "uninit"
        /\ guard' = "busy"
        /\ tpc' = [tpc EXCEPT ![t] = "init"]
  /\ UNCHANGED <<engineVars, FIXED_RANDOM, inits, tx, tret, callerVars>>

Initializer(t) ==
  /\ tpc[t] = "init"
  /\ \E now \in ClockValues : FIXED_RANDOM' = now
  /\ inits' = inits + 1
  /\ guard' = "done"
  /\ tpc' = [tpc EXCEPT ![t] = "return"]
  /\ UNCHANGED <<engineVars, tx, tret, callerVars>>

Return(t) ==
  /\ tpc[t] = "return"
  /\ tret' = [tret EXCEPT ![t] = [x |-> tx[t], seed |-> FIXED_RANDOM,
                                  val |-> custom_hash(tx[t], FIXED_RANDOM)]]
  /\ tpc' = [tpc EXCEPT ![t] = "idle"]
  /\ UNCHANGED <<engineVars, staticVars, tx, callerVars>>

-----------------------------------------------------------------------------
(* The functors called by one sequential caller *)

HashInputs == {-1, 3}

Pairs == HashInputs \X HashInputs

Vectors == UNION {[1..len -> HashInputs] : len \in 0..MaxVecLen}

NoCall == [fn |-> "none", arg |-> <<>>, val |-> <<>>]

\* The values FIXED_RANDOM may hold once control has passed its declaration:
\* the initializer reads the clock only if the static is not initialised yet.
seedsAfter == IF guard = "done" THEN {FIXED_RANDOM} ELSE ClockValues

passStatic(seed) ==
  /\ FIXED_RANDOM' = seed
  /\ guard' = "done"
  /\ inits' = IF guard = "done" THEN inits ELSE inits + 1

record(call) ==
  /\ hprev' = hlast
  /\ hlast' = call

HashInt(k) ==
  /\ \E seed \in seedsAfter :
       /\ passStatic(seed)
       /\ record([fn |-> "custom", arg |-> k, val |-> custom_hash(ToWord(k), FIXED_RANDOM')])
  /\ UNCHANGED <<engineVars, threadVars>>

HashPair(p) ==
  /\ \E seed \in seedsAfter :
       /\ passStatic(seed)
       /\ record([fn |-> "pair", arg |-> p, val |-> pair_hash(p, FIXED_RANDOM')])
  /\ UNCHANGED <<engineVars, threadVars>>

HashVec(v) ==
  /\ IF Len(v) = 0
     THEN /\ record([fn |-> "vector", arg |-> v, val |-> vector_hash(v, FIXED_RANDOM)])
          /\ UNCHANGED staticVars
     ELSE \E seed \in seedsAfter :
            /\ passStatic(seed)
            /\ record([fn |-> "vector", arg |-> v, val |-> vector_hash(v, FIXED_RANDOM')])
  /\ UNCHANGED <<engineVars, threadVars>>

-----------------------------------------------------------------------------
(* Inputs *)

\* the first NumLetters letters and 'z'
Letters == {CharA + k : k \in 0..(NumLetters - 1)} \cup {CharA + 25}

ShortTexts == UNION {[0..(len - 1) -> Letters] : len \in 0..MaxLen}

Text(s) == [k \in 0..(Len(s) - 1) |-> s[k + 1]]

abacaba == Text(<<97, 98, 97, 99, 97, 98, 97>>)

\* "abacaba" (the text of letsGo) and "zzazbz"
LongTexts == {abacaba, Text(<<122, 122, 97, 122, 98, 122>>)}

Texts == ShortTexts \cup LongTexts

EngineIdle ==
  /\ a = <<>>
  /\ pc = "unused"
  /\ str = <<>>
  /\ n = 0
  /\ hashValues = <<>>
  /\ powersOfBase = <<>>
  /\ inversePowersOfBase = <<>>
  /\ out1 = NoResult
  /\ out2 = NoResult

FunctorsIdle ==
  /\ guard = "uninit"
  /\ FIXED_RANDOM = <<>>
  /\ inits = 0
  /\ tpc = [t \in Threads |-> "idle"]
  /\ tx = [t \in Threads |-> <<>>]
  /\ tret = [t \in Threads |-> NoReturn]
  /\ hprev = NoCall
  /\ hlast = NoCall

Init ==
  /\ a \in Texts
  /\ pc = "new"
  /\ str = <<>>
  /\ n = 0
  /\ hashValues = <<>>
  /\ powersOfBase = <<>>
  /\ inversePowersOfBase = <<>>
  /\ out1 = NoResult
  /\ out2 = NoResult
  /\ FunctorsIdle

Next ==
  \/ Hashing
  \/ \E slot \in 1..2, l \in 0..(n - 1), r \in 0..(n - 1) : QueryVec(slot, l, r)
  \/ \E slot \in 1..2, l \in 0..(n - 1), r \in 0..(n - 1) : QueryPair(slot, l, r)

Spec == Init /\ [][Next]_vars

\* Threads calling custom_hash concurrently
SeedInit == EngineIdle /\ FunctorsIdle

SeedNext ==
  \/ \E t \in Threads, x \in ThreadInputs : Enter(t, x)
  \/ \E t \in Threads : StaticDecl(t)
  \/ \E t \in Threads : Initializer(t)
  \/ \E t \in Threads : Return(t)

SeedSpec == SeedInit /\ [][SeedNext]_vars

\* One caller using the three functors
FunctorInit == EngineIdle /\ FunctorsIdle

FunctorNext ==
  \/ \E k \in HashInputs : HashInt(k)
  \/ \E p \in Pairs : HashPair(p)
  \/ \E v \in Vectors : HashVec(v)

FunctorSpec == FunctorInit /\ [][FunctorNext]_vars

-----------------------------------------------------------------------------
(* Properties *)

Substring(l, r) == [k \in 0..(r - l) |-> str[l + k]]

Asked(o) == o.fn # "none"

SameRange(o1, o2) == o1.l = o2.l /\ o1.r = o2.r

At(o, fn, l, r) == o.fn = fn /\ o.l = l /\ o.r = r

\* C1: position independence.  Whenever the caller holds the results of two
\* queries of the same form whose substrings str[l1..r1] and str[l2..r2] are
\* equal, the two results are equal on every modulus; for "abacaba" this
\* covers (0,2) and (4,6).
PositionIndependence ==
  (Asked(out1) /\ out1.fn = out2.fn
     /\ Substring(out1.l, out1.r) = Substring(out2.l, out2.r))
    => out1.val = out2.val

PositionIndependenceWitness ==
  /\ str = abacaba
  /\ At(out1, "Vec", 0, 2)
  /\ At(out2, "Vec", 4, 6)
  /\ out1.val = out2.val

\* the per-modulus values of a result, in moduli order
Values(o) == IF o.fn = "Pair" THEN <<o.val.first, o.val.second>>
                              ELSE <<o.val[0], o.val[1]>>

\* C2: a single-character query (i,i) returns on every modulus exactly the
\* code str[i] - 'a' + 1, a value in 1..26, whatever the position i.
SingleCharacter ==
  \A o \in {out1, out2} :
    (Asked(o) /\ o.l = o.r) =>
      /\ Values(o) = <<str[o.l] - CharA + 1, str[o.l] - CharA + 1>>
      /\ Values(o)[1] \in 1..26

SingleCharacterWitness ==
  /\ At(out1, "Pair", 3, 3)
  /\ At(out2, "Vec", 1, 1)
  /\ str[3] = CharA + 25

\* C3: for the same (l,r) the pair form (h1,h2) and the vector form [v0,v1]
\* agree: h1 = v0 and h2 = v1.
PairEqualsVec ==
  \A o1 \in {out1, out2}, o2 \in {out1, out2} :
    (o1.fn = "Vec" /\ o2.fn = "Pair" /\ SameRange(o1, o2)) =>
      /\ DOMAIN o1.val = 0..1
      /\ o2.val.first = o1.val[0]
      /\ o2.val.second = o1.val[1]

PairEqualsVecWitness ==
  /\ str = abacaba
  /\ At(out1, "Vec", 2, 5)
  /\ At(out2, "Pair", 2, 5)

\* C4: for "abacaba" the result of (0,3) ("abac") differs from the result of
\* (3,6) ("caba"), in either form.
NoFalsePositive ==
  (str = abacaba /\ Asked(out1) /\ out1.fn = out2.fn
     /\ out1.l = 0 /\ out1.r = 3 /\ out2.l = 3 /\ out2.r = 6)
    => out1.val # out2.val

NoFalsePositiveWitness ==
  /\ str = abacaba
  /\ At(out1, "Pair", 0, 3)
  /\ At(out2, "Pair", 3, 6)

\* C5: FIXED_RANDOM is initialised once.  Under every interleaving the
\* initializer runs at most once, every call that has returned used the
\* value FIXED_RANDOM holds, and two returned calls with the same argument
\* returned the same hash.
SeedOnce ==
  /\ inits <= 1
  /\ (guard = "done") = (inits = 1)
  /\ \A t \in Threads :
       tret[t] # NoReturn => (guard = "done" /\ tret[t].seed = FIXED_RANDOM)
  /\ \A t1 \in Threads, t2 \in Threads :
       (tret[t1] # NoReturn /\ tret[t2] # NoReturn /\ tret[t1].x = tret[t2].x)
         => tret[t1].val = tret[t2].val

\* two threads made their first calls concurrently: thread 2 has returned
\* and thread 1, which also found no earlier return, is still in its call
SeedOnceWitness ==
  /\ tret[2] # NoReturn
  /\ tret[1] = NoReturn
  /\ tpc[1] = "return"
  /\ tx[1] = tret[2].x

\* C6: pair_hash is order sensitive and deterministic.  For a # b the hashes
\* of (a,b) and (b,a) differ, and hashing the same pair again returns the
\* same value.
PairOrder ==
  (hprev.fn = "pair" /\ hlast.fn = "pair") =>
    /\ (hprev.arg = <<hlast.arg[2], hlast.arg[1]>> /\ hlast.arg[1] # hlast.arg[2])
         => hprev.val # hlast.val
    /\ hprev.arg = hlast.arg => hprev.val = hlast.val
    /\ hlast.val = Xor(custom_hash(ToWord(hlast.arg[1]), FIXED_RANDOM),
                       Shl(custom_hash(ToWord(hlast.arg[2]), FIXED_RANDOM), 1))

PairOrderWitness ==
  /\ hprev.fn = "pair" /\ hprev.arg = <<-1, 3>>
  /\ hlast.fn = "pair" /\ hlast.arg = <<3, -1>>

Front(v) == SubSeq(v, 1, Len(v) - 1)

\* C7: vector_hash is the left-to-right fold from 0.  The empty vector
\* hashes to 0, [e] hashes to custom_hash(e) + 0x9e3779b9, and the hash of a
\* vector extends the hash h of the vector without its last element e to
\* h ^ (custom_hash(e) + 0x9e3779b9 + (h << 6) + (h >> 2)).
VectorFold ==
  hlast.fn = "vector" =>
    /\ Len(hlast.arg) = 0 => hlast.val = <<0, 0, 0, 0, 0, 0, 0, 0>>
    /\ Len(hlast.arg) = 1 =>
         hlast.val = Add(custom_hash(ToWord(hlast.arg[1]), FIXED_RANDOM),
                         Hex(0, 0, 0, 0, 158, 55, 121, 185))
    /\ (Len(hlast.arg) > 0 /\ hprev.fn = "vector" /\ hprev.arg = Front(hlast.arg)) =>
         hlast.val =
           Xor(hprev.val,
               Add(Add(Add(custom_hash(ToWord(hlast.arg[Len(hlast.arg)]), FIXED_RANDOM),
                           Hex(0, 0, 0, 0, 158, 55, 121, 185)),
                       Shl(hprev.val, 6)),
                   Shr(hprev.val, 2)))

VectorFoldWitness ==
  /\ hprev.fn = "vector" /\ hprev.arg = <<3>>
  /\ hlast.fn = "vector" /\ hlast.arg = <<3, -1>>

\* C8: queries are read-only and idempotent.  A step taken once the engine is
\* constructed changes none of str, n, hashValues, powersOfBase and
\* inversePowersOfBase, and two results of the same form held for the same
\* (l,r) are identical whichever queries ran between them.
QueriesReadOnly ==
  /\ [][pc = "ready" =>
          UNCHANGED <<str, n, hashValues, powersOfBase, inversePowersOfBase>>]_vars
  /\ []((Asked(out1) /\ out1.fn = out2.fn /\ SameRange(out1, out2))
          => out1.val = out2.val)

QueriesReadOnlyWitness ==
  /\ str = abacaba
  /\ At(out1, "Vec", 1, 4)
  /\ At(out2, "Vec", 1, 4)

InRange(row, len, m) ==
  /\ DOMAIN row = 0..(len - 1)
  /\ \A j \in DOMAIN row : 0 <= row[j] /\ row[j] < m

\* C9: after construction, for every modulus m the n entries of hashValues
\* and the n + 1 entries of powersOfBase and of inversePowersOfBase lie in
\* [0, m), and powersOfBase[m][0] = 1.
TablesInRange ==
  pc = "ready" =>
    /\ n = Cardinality(DOMAIN str)
    /\ \A i \in 0..1 :
         /\ InRange(hashValues[i], n, hashPrimes[i])
         /\ InRange(powersOfBase[i], n + 1, hashPrimes[i])
         /\ InRange(inversePowersOfBase[i], n + 1, hashPrimes[i])
         /\ powersOfBase[i][0] = 1

\* a prefix hash that was reduced: the sum passed the modulus
TablesInRangeWitness ==
  /\ pc = "ready"
  /\ str = abacaba
  /\ hashValues[1][6] < hashValues[1][5]

\* C10: among substrings of length at most 6 the pair query is exact: the
\* results of two such ranges are equal if and only if the substrings are.
ShortExact ==
  (out1.fn = "Pair" /\ out2.fn = "Pair"
     /\ out1.r - out1.l < 6 /\ out2.r - out2.l < 6)
    => ((out1.val = out2.val)
          <=> (Substring(out1.l, out1.r) = Substring(out2.l, out2.r)))

ShortExactWitness ==
  /\ str = abacaba
  /\ At(out1, "Pair", 0, 5)
  /\ At(out2, "Pair", 1, 6)
  /\ out1.val # out2.val

====
